---- MODULE Spec2Model ----
(***************************************************************************)
(* Bank-statement OCR: the document-to-transactions pipeline of            *)
(* src/services/geminiService.ts (getPdfJs, fileToGenerativePart,          *)
(* cleanAndParseJson, processStatementFiles).                              *)
(*                                                                         *)
(* One action is one browser task: the completion of one external          *)
(* operation (script load, file read, document open, page fetch, page      *)
(* rasterization, service request) together with every promise reaction    *)
(* (microtask) it triggers, up to the next await of an external operation. *)
(***************************************************************************)
EXTENDS Naturals, Sequences, FiniteSets

\* ---------------------------------------------------------------- bounds
\* MaxFiles: renders alive at once, hence also the longest list of files.
\* MaxPages: pages of a document.
MaxFiles == 2
MaxPages == 2

\* ---------------------------------------------------------------- values
NULL == 0

PDF_TYPE == "application/pdf"
JPEG_TYPE == "image/jpeg"

\* The input files a caller can pass: a paginated document of MaxPages pages,
\* one without any page, and an image.  numPages is what the rendering
\* backend reports once it has opened the file's bytes.
Files ==
  { [name |-> "a.pdf", type |-> PDF_TYPE, numPages |-> MaxPages],
    [name |-> "b.pdf", type |-> PDF_TYPE, numPages |-> 0],
    [name |-> "c.png", type |-> "image/png", numPages |-> 1] }

RECURSIVE SeqsUpTo(_, _)
SeqsUpTo(S, n) ==
  IF n = 0 THEN { <<>> }
  ELSE LET shorter == SeqsUpTo(S, n - 1)
       IN shorter \cup { Append(s, x) : s \in { t \in shorter : Len(t) = n - 1 }, x \in S }

\* The lists of distinct files of at most MaxFiles files.
FileLists ==
  { fs \in SeqsUpTo(Files, MaxFiles) :
      \A j, k \in DOMAIN fs : j # k => fs[j] # fs[k] }

\* An Error object: its message is determined by (kind, file, page).
Err(kind, file, page) == [kind |-> kind, file |-> file, page |-> page]
NoError == Err("", "", 0)

\* A progress label handed to the setLoadingMessage callback.
Label(kind, file, page, of) == [kind |-> kind, file |-> file, page |-> page, of |-> of]
NoLabel == Label("", "", 0, 0)

\* One Part: the media type and the base64 payload, which is determined by
\* the file and the page it encodes.
Part(mimeType, file, page) == [mimeType |-> mimeType, file |-> file, page |-> page]

\* ------------------------------------------------------ cleanAndParseJson
\* A text is a sequence of characters.  NBSP stands for U+00A0, which
\* String.prototype.trim strips and JSON.parse does not accept as whitespace.
NBSP == "nbsp"
\* The backtick and the double quote, by name.
BACKTICK == "backtick"
QUOTE == "quote"
TrimWhitespace == {" ", "\n", "\t", "\r", NBSP}
JsonWhitespace == {" ", "\n", "\t", "\r"}
Digits == {"0", "1", "2"}
\* The characters of the modelled texts.  JSON.parse is modelled on texts
\* over these characters: no backslash, no '.', 'e' or 'E', and of the three
\* literals only null can be spelled.
Chars == {"[", "]", "{", "}", ",", ":", QUOTE, "-", BACKTICK, "a", "j", "s", "o", "n",
          "t", "u", "l"} \cup Digits \cup TrimWhitespace

SubText(s, from, to) == SubSeq(s, from, to)

StartsWithAt(s, i, pat) ==
  /\ i + Len(pat) - 1 <= Len(s)
  /\ \A k \in 1..Len(pat) : s[i + k - 1] = pat[k]

\* text.trim()
Trim(text) ==
  LET keep == { k \in 1..Len(text) : text[k] \notin TrimWhitespace }
  IN IF keep = {} THEN <<>>
     ELSE LET first == CHOOSE k \in keep : \A m \in keep : k <= m
              last == CHOOSE k \in keep : \A m \in keep : k >= m
          IN SubText(text, first, last)

FENCE_OPEN == <<BACKTICK, BACKTICK, BACKTICK, "j", "s", "o", "n", "\n">>
FENCE_CLOSE == <<"\n", BACKTICK, BACKTICK, BACKTICK>>

\* A variant that looks for a fence without the json label.
FenceMatchUnlabelled(trimmed) ==
  LET open == <<BACKTICK, BACKTICK, BACKTICK, "\n">>
      closes(p) == { q \in (p + Len(open))..Len(trimmed) :
                       StartsWithAt(trimmed, q, FENCE_CLOSE) }
      opens == { p \in 1..Len(trimmed) :
                   StartsWithAt(trimmed, p, open) /\ closes(p) # {} }
  IN IF opens = {} THEN [matched |-> FALSE, group |-> <<>>]
     ELSE LET p == CHOOSE x \in opens : \A y \in opens : x <= y
              q == CHOOSE x \in closes(p) : \A y \in closes(p) : x <= y
          IN [matched |-> TRUE, group |-> SubText(trimmed, p + Len(open), q - 1)]

\* trimmed.match of the json fence pattern: the leftmost opening fence that
\* has a closing fence after it, and the nearest such closing fence (the group
\* is lazy).  matched = FALSE stands for a null match; group is jsonMatch[1].
FenceMatch(trimmed) ==
  LET closes(p) == { q \in (p + Len(FENCE_OPEN))..Len(trimmed) :
                       StartsWithAt(trimmed, q, FENCE_CLOSE) }
      opens == { p \in 1..Len(trimmed) :
                   StartsWithAt(trimmed, p, FENCE_OPEN) /\ closes(p) # {} }
  IN IF opens = {} THEN [matched |-> FALSE, group |-> <<>>]
     ELSE LET p == CHOOSE x \in opens : \A y \in opens : x <= y
              q == CHOOSE x \in closes(p) : \A y \in closes(p) : x <= y
          IN [matched |-> TRUE,
              group |-> SubText(trimmed, p + Len(FENCE_OPEN), q - 1)]

\* JSON values, all of one record shape.
JVal(type, neg, num, str, items, members) ==
  [type |-> type, neg |-> neg, num |-> num, str |-> str, items |-> items,
   members |-> members]
JNull == JVal("null", FALSE, 0, <<>>, <<>>, {})
JNumber(neg, n) == JVal("number", neg, n, <<>>, <<>>, {})
JString(str) == JVal("string", FALSE, 0, str, <<>>, {})
JArray(items) == JVal("array", FALSE, 0, <<>>, items, {})
JObject(members) == JVal("object", FALSE, 0, <<>>, <<>>, members)

\* A parse result: ok, the position after what was consumed, the value.
POk(next, val) == [ok |-> TRUE, next |-> next, val |-> val]
PFail == [ok |-> FALSE, next |-> 0, val |-> JNull]

RECURSIVE SkipWs(_, _)
SkipWs(s, i) ==
  IF i <= Len(s) /\ s[i] \in JsonWhitespace THEN SkipWs(s, i + 1) ELSE i

DigitValue(c) == IF c = "0" THEN 0 ELSE IF c = "1" THEN 1 ELSE 2

RECURSIVE ParseDigits(_, _, _)
ParseDigits(s, i, acc) ==
  IF i <= Len(s) /\ s[i] \in Digits
  THEN ParseDigits(s, i + 1, acc * 10 + DigitValue(s[i]))
  ELSE [next |-> i, num |-> acc]

\* number: -? ( 0 | [1-9][0-9]* )
ParseNumber(s, i) ==
  LET neg == i <= Len(s) /\ s[i] = "-"
      j == IF neg THEN i + 1 ELSE i
  IN IF j > Len(s) \/ s[j] \notin Digits THEN PFail
     ELSE IF s[j] = "0" THEN POk(j + 1, JNumber(neg, 0))
     ELSE LET d == ParseDigits(s, j, 0) IN POk(d.next, JNumber(neg, d.num))

\* string: a double quote, characters other than the double quote and the
\* control characters, and the closing double quote.
RECURSIVE StringEnd(_, _)
StringEnd(s, i) ==
  IF i > Len(s) THEN 0
  ELSE IF s[i] = QUOTE THEN i
  ELSE IF s[i] \in {"\n", "\t", "\r"} THEN 0
  ELSE StringEnd(s, i + 1)

ParseString(s, i) ==
  IF i > Len(s) \/ s[i] # QUOTE THEN PFail
  ELSE LET e == StringEnd(s, i + 1)
       IN IF e = 0 THEN PFail ELSE POk(e + 1, JString(SubText(s, i + 1, e - 1)))

\* A later member with the same key replaces the earlier one.
PutMember(members, key, val) ==
  { m \in members : m.key # key } \cup { [key |-> key, value |-> val] }

RECURSIVE ParseValue(_, _), ParseElements(_, _, _), ParseMembers(_, _, _)

\* After '[' or ',': elements up to and including ']'.
ParseElements(s, i, items) ==
  LET v == ParseValue(s, SkipWs(s, i))
  IN IF ~v.ok THEN PFail
     ELSE LET j == SkipWs(s, v.next)
              got == Append(items, v.val)
          IN IF j > Len(s) THEN PFail
             ELSE IF s[j] = "]" THEN POk(j + 1, JArray(got))
             ELSE IF s[j] = "," THEN ParseElements(s, j + 1, got)
             ELSE PFail

\* After '{' or ',': members up to and including '}'.
ParseMembers(s, i, members) ==
  LET k == ParseString(s, SkipWs(s, i))
  IN IF ~k.ok THEN PFail
     ELSE LET c == SkipWs(s, k.next)
          IN IF c > Len(s) \/ s[c] # ":" THEN PFail
             ELSE LET v == ParseValue(s, SkipWs(s, c + 1))
                  IN IF ~v.ok THEN PFail
                     ELSE LET j == SkipWs(s, v.next)
                              got == PutMember(members, k.val.str, v.val)
                          IN IF j > Len(s) THEN PFail
                             ELSE IF s[j] = "}" THEN POk(j + 1, JObject(got))
                             ELSE IF s[j] = "," THEN ParseMembers(s, j + 1, got)
                             ELSE PFail

ParseValue(s, i) ==
  IF i > Len(s) THEN PFail
  ELSE IF s[i] = "["
  THEN LET j == SkipWs(s, i + 1)
       IN IF j <= Len(s) /\ s[j] = "]" THEN POk(j + 1, JArray(<<>>))
          ELSE ParseElements(s, i + 1, <<>>)
  ELSE IF s[i] = "{"
  THEN LET j == SkipWs(s, i + 1)
       IN IF j <= Len(s) /\ s[j] = "}" THEN POk(j + 1, JObject({}))
          ELSE ParseMembers(s, i + 1, {})
  ELSE IF s[i] = QUOTE THEN ParseString(s, i)
  ELSE IF StartsWithAt(s, i, <<"n", "u", "l", "l">>) THEN POk(i + 4, JNull)
  ELSE ParseNumber(s, i)

\* JSON.parse(jsonString): ok = FALSE stands for a thrown SyntaxError.
JsonParse(jsonString) ==
  LET v == ParseValue(jsonString, SkipWs(jsonString, 1))
  IN IF v.ok /\ SkipWs(jsonString, v.next) = Len(jsonString) + 1
     THEN [ok |-> TRUE, val |-> v.val]
     ELSE [ok |-> FALSE, val |-> JNull]

\* What cleanAndParseJson hands back: the parsed array, or the thrown error.
Returned(items) == [ok |-> TRUE, value |-> items, error |-> NoError]
Thrown(e) == [ok |-> FALSE, value |-> <<>>, error |-> e]

InvalidFormatError == Err("InvalidDataFormat", "", 0)

\* A variant without the Array.isArray test: whatever parses is handed back.
CleanAndParseJsonAnyValue(text) ==
  LET trimmed == Trim(text)
      jsonMatch == FenceMatch(trimmed)
      jsonString == IF jsonMatch.matched THEN jsonMatch.group ELSE trimmed
      parsed == JsonParse(jsonString)
  IN IF parsed.ok THEN Returned(parsed.val.items) ELSE Thrown(InvalidFormatError)

\* A variant that hands back only the records that have a field.
CleanAndParseJsonCompleteRecords(text) ==
  LET trimmed == Trim(text)
      jsonMatch == FenceMatch(trimmed)
      jsonString == IF jsonMatch.matched THEN jsonMatch.group ELSE trimmed
      parsed == JsonParse(jsonString)
  IN IF parsed.ok /\ parsed.val.type = "array"
     THEN Returned(SelectSeq(parsed.val.items,
                             LAMBDA v : ~(v.type = "object" /\ v.members = {})))
     ELSE Thrown(InvalidFormatError)

\* cleanAndParseJson(text), lines 133-149.
CleanAndParseJson(text) ==
  LET trimmed == Trim(text)
      jsonMatch == FenceMatch(trimmed)
      jsonString == IF jsonMatch.matched THEN jsonMatch.group ELSE trimmed
      parsed == JsonParse(jsonString)
  IN IF parsed.ok /\ parsed.val.type = "array"
     THEN Returned(parsed.val.items)
     ELSE Thrown(InvalidFormatError)

\* ------------------------------------------------------------- variables
VARIABLES
  window,          \* window.pdfjsLib, window['pdfjs-dist/build/pdf'], and the
                   \* library object's GlobalWorkerOptions.workerSrc
  pdfjsLibPromise, \* the module-level promise of getPdfJs (NULL or a promise)
  promises,        \* the live promise objects getPdfJs has created, by identity
  tasks,           \* the fileToGenerativePart invocations that are alive
  run,             \* the latest processStatementFiles invocation
  loadingMessage,  \* the last label processStatementFiles and its renders have
                   \* delivered to the setLoadingMessage callback
  app              \* the state of the App component (src/App.tsx, lines 9-13):
                   \* files, transactions, isLoading, error, loadingMessage

vars == <<window, pdfjsLibPromise, promises, tasks, run, loadingMessage, app>>

\* -------------------------------------------------------------- getPdfJs
Pending == [state |-> "pending", lib |-> NULL, reason |-> ""]

\* The state getPdfJs reads and writes.
Loader(win, plp, proms) == [window |-> win, pdfjsLibPromise |-> plp, promises |-> proms]

\* A variant that does not look at pdfjsLibPromise: every call made while the
\* library is absent starts a load of its own.
GetPdfJsUnguarded(L) ==
  LET pdfLib == IF L.window.pdfjsLib # NULL THEN L.window.pdfjsLib
                ELSE L.window.pdfjsDist
  IN IF pdfLib # NULL
     THEN [ret |-> [kind |-> "value", lib |-> pdfLib, promise |-> NULL],
           loader |-> [L EXCEPT !.window.workerSrc = TRUE]]
     ELSE LET p == Len(L.promises) + 1
          IN [ret |-> [kind |-> "promise", lib |-> NULL, promise |-> p],
              loader |-> [L EXCEPT !.pdfjsLibPromise = p,
                                   !.promises = Append(@, Pending)]]

\* getPdfJs(): the returned promise is either Promise.resolve(pdfLib)
\* (kind "value") or the shared loading promise (kind "promise").
GetPdfJs(L) ==
  LET pdfLib == IF L.window.pdfjsLib # NULL THEN L.window.pdfjsLib
                ELSE L.window.pdfjsDist
  IN IF pdfLib # NULL
     THEN [ret |-> [kind |-> "value", lib |-> pdfLib, promise |-> NULL],
           loader |-> [L EXCEPT !.window.workerSrc = TRUE]]
     ELSE IF L.pdfjsLibPromise # NULL
     THEN [ret |-> [kind |-> "promise", lib |-> NULL, promise |-> L.pdfjsLibPromise],
           loader |-> L]
     ELSE LET p == Len(L.promises) + 1
          IN [ret |-> [kind |-> "promise", lib |-> NULL, promise |-> p],
              loader |-> [L EXCEPT !.pdfjsLibPromise = p,
                                   !.promises = Append(@, Pending)]]

\* The error the loading promise rejects with.
InitError(reason) == Err(reason, "", 0)

\* ---------------------------------------------------- fileToGenerativePart
InFlightPcs == {"awaitLib", "arrayBuffer", "getDocument", "getPage", "render",
                "readAsDataURL"}

\* orphan: the invocation of processStatementFiles that started the render is
\* no longer the latest one.
NewTask(file) ==
  [orphan |-> FALSE, file |-> file, pc |-> "start", libPromise |-> NULL, lib |-> NULL,
   numPages |-> 0, i |-> 0, parts |-> <<>>, error |-> NoError]

Reject(t, e) == [t EXCEPT !.pc = "rejected", !.error = e]

\* Line 72 onwards, once `await getPdfJs()` has produced its outcome.
AfterGetPdfJs(t, settled) ==
  IF settled.state = "resolved"
  THEN [t EXCEPT !.pc = "arrayBuffer", !.lib = settled.lib]
  ELSE Reject(t, InitError(settled.reason))

\* The synchronous start of fileToGenerativePart(file, setLoadingMessage), and
\* the continuation that runs at once when the awaited promise is settled.
FileToGenerativePart(file, L) ==
  IF file.type = PDF_TYPE
  THEN LET g == GetPdfJs(L)
           t == [NewTask(file) EXCEPT !.libPromise = g.ret.promise]
           now == IF g.ret.kind = "value"
                  THEN [state |-> "resolved", lib |-> g.ret.lib, reason |-> ""]
                  ELSE g.loader.promises[g.ret.promise]
       IN [task |-> IF now.state = "pending" THEN [t EXCEPT !.pc = "awaitLib"]
                    ELSE AfterGetPdfJs(t, now),
           loader |-> g.loader,
           label |-> Label("LoadingLibrary", file.name, 0, 0)]
  ELSE [task |-> [NewTask(file) EXCEPT !.pc = "readAsDataURL"],
        loader |-> L,
        label |-> NoLabel]

\* Lines 73-74: the library is there; the file's bytes are requested.
\* Line 78-80: the bytes are there; the document is opened.
ArrayBufferResolved(t) == [t EXCEPT !.pc = "getDocument"]

\* A variant whose loop stops one page early (i < numPages).
LoopHeadExclusive(t) ==
  IF t.i < t.numPages THEN [t EXCEPT !.pc = "getPage"]
  ELSE [t EXCEPT !.pc = "fulfilled"]

\* The loop of lines 88-114 from its head: the next page is fetched, or the
\* loop is over and parts is returned.
LoopHead(t) ==
  IF t.i <= t.numPages THEN [t EXCEPT !.pc = "getPage"]
  ELSE [t EXCEPT !.pc = "fulfilled"]

\* Lines 86-88: the document is open.
DocumentOpened(t) == LoopHead([t EXCEPT !.numPages = t.file.numPages, !.i = 1])

\* A variant whose message does not name the file.
DocumentOpenFailedUnnamed(t) == Reject(t, Err("CouldNotRead", "", 0))

\* Lines 81-84: the catch around getDocument.
DocumentOpenFailed(t) == Reject(t, Err("CouldNotRead", t.file.name, 0))

\* A variant that numbers the failing page from zero.
PageRenderFailedFromZero(t) == Reject(t, Err("PageRender", t.file.name, t.i - 1))

\* Lines 110-113: the catch around one page's fetch and rendering.
PageRenderFailed(t) == Reject(t, Err("PageRender", t.file.name, t.i))

\* A variant that does not await the rendering: the next page is fetched at
\* once.
PageFetchedWithoutAwait(t, hasContext) ==
  IF hasContext THEN LoopHead([t EXCEPT !.i = @ + 1])
  ELSE PageRenderFailed(t)

\* Lines 92-102: the page is fetched; with a canvas context its rendering starts.
PageFetched(t, hasContext) ==
  IF hasContext THEN [t EXCEPT !.pc = "render"]
  ELSE PageRenderFailed(t)

\* Lines 103-109 and the loop's increment.
PageRendered(t) ==
  LoopHead([t EXCEPT !.parts = Append(@, Part(JPEG_TYPE, t.file.name, t.i)),
                     !.i = @ + 1])

\* Lines 119-129: reader.onloadend with a result.
ReaderLoaded(t) ==
  [t EXCEPT !.pc = "fulfilled", !.parts = <<Part(t.file.type, t.file.name, 1)>>]

\* The label a task announces when it arrives at pc.
TaskLabel(t) ==
  IF t.pc = "getDocument" THEN Label("ProcessingPdf", t.file.name, 0, 0)
  ELSE IF t.pc = "getPage" THEN Label("RenderingPage", t.file.name, t.i, t.numPages)
  ELSE NoLabel

\* ------------------------------------------------- processStatementFiles
NoRun ==
  [files |-> <<>>, pc |-> "idle", last |-> 0, imageParts |-> <<>>, calls |-> 0,
   textResponse |-> <<>>, decoded |-> FALSE, result |-> <<>>, error |-> NoError]

Settled(r) == r.pc \in {"idle", "done", "failed"}

\* The renders the latest run started, in input order.
Mine(ts) == SelectSeq(ts, LAMBDA t : ~t.orphan)

\* A variant that collects the renders' values last file first.
PromiseAllValuesReversed(mine) ==
  [k \in DOMAIN mine |-> mine[Len(mine) + 1 - k].parts]

\* Promise.all's fulfilment value: the renders' results by input position.
PromiseAllValues(mine) == [k \in DOMAIN mine |-> mine[k].parts]

\* Array.prototype.flat()
RECURSIVE Flat(_)
Flat(arrays) == IF arrays = <<>> THEN <<>> ELSE Head(arrays) \o Flat(Tail(arrays))

MinOf(S) == CHOOSE x \in S : \A y \in S : x <= y

\* A variant without the check of line 159.
NeverEmptyBatch(imageParts) == FALSE

\* Line 159.
IsEmptyBatch(imageParts) == Len(imageParts) = 0

\* A variant that waits for every render to settle before it reacts (as
\* Promise.allSettled would), and then fails with the first failed input.
AfterRendersAllSettled(r, ts, moved) ==
  LET mine == Mine(ts)
      rejected == { k \in DOMAIN mine : mine[k].pc = "rejected" }
  IN IF r.pc # "rendering" THEN [run |-> r, label |-> NoLabel]
     ELSE IF \E k \in DOMAIN mine : mine[k].pc \notin {"fulfilled", "rejected"}
     THEN [run |-> r, label |-> NoLabel]
     ELSE IF rejected # {}
     THEN [run |-> [r EXCEPT !.pc = "failed", !.last = MinOf(rejected),
                             !.error = mine[MinOf(rejected)].error],
           label |-> NoLabel]
     ELSE LET imageParts == Flat(PromiseAllValues(mine))
          IN IF IsEmptyBatch(imageParts)
             THEN [run |-> [r EXCEPT !.pc = "failed", !.last = moved,
                                     !.error = Err("NoProcessableContent", "", 0)],
                   label |-> NoLabel]
             ELSE [run |-> [r EXCEPT !.pc = "calling", !.last = moved,
                                     !.imageParts = imageParts, !.calls = @ + 1],
                   label |-> Label("Analyzing", "", 0, 0)]

\* Lines 156-202: the reaction of `await Promise.all(...)` to the renders'
\* promises: the first rejection rejects the run; when all are fulfilled the
\* batch is assembled, checked, and the request is sent.  moved is the input
\* position of the render that has just settled (0: none has); run.last
\* records the position of the render whose settlement settled Promise.all.
AfterRenders(r, ts, moved) ==
  LET mine == Mine(ts)
      rejected == { k \in DOMAIN mine : mine[k].pc = "rejected" }
  IN IF r.pc # "rendering" THEN [run |-> r, label |-> NoLabel]
     ELSE IF rejected # {}
     THEN [run |-> [r EXCEPT !.pc = "failed", !.last = MinOf(rejected),
                             !.error = mine[MinOf(rejected)].error],
           label |-> NoLabel]
     ELSE IF \A k \in DOMAIN mine : mine[k].pc = "fulfilled"
     THEN LET imageParts == Flat(PromiseAllValues(mine))
          IN IF IsEmptyBatch(imageParts)
             THEN [run |-> [r EXCEPT !.pc = "failed", !.last = moved,
                                     !.error = Err("NoProcessableContent", "", 0)],
                   label |-> NoLabel]
             ELSE [run |-> [r EXCEPT !.pc = "calling", !.last = moved,
                                     !.imageParts = imageParts, !.calls = @ + 1],
                   label |-> Label("Analyzing", "", 0, 0)]
     ELSE [run |-> r, label |-> NoLabel]

\* The tasks that still exist: those of the latest run, and earlier runs'
\* renders that are still in flight.
Alive(ts) == SelectSeq(ts, LAMBDA t : ~t.orphan \/ t.pc \in InFlightPcs)

\* The renders a new invocation finds still in flight.
Orphaned(ts) ==
  LET inFlight == SelectSeq(ts, LAMBDA t : t.pc \in InFlightPcs)
  IN [k \in DOMAIN inFlight |-> [inFlight[k] EXCEPT !.orphan = TRUE]]

\* The position, among the latest run's renders, of the task at index k.
Position(ts, k) == Cardinality({ j \in 1..k : ~ts[j].orphan })

\* ------------------------------------------------------------------- App
\* App's state before any event (App.tsx, lines 9-13).  error = NoError
\* stands for a null error, loadingMessage = NoLabel for the empty message.
InitialApp ==
  [files |-> <<>>, transactions |-> <<>>, isLoading |-> FALSE, error |-> NoError,
   loadingMessage |-> NoLabel]

\* A variant that starts a run without clearing the error of the last one.
AppStartsKeepingError(a) ==
  [a EXCEPT !.isLoading = TRUE, !.transactions = <<>>,
            !.loadingMessage = Label("Preparing", "", 0, 0)]

\* handleProcessStatement up to its call of processStatementFiles (lines 27-30).
AppStarts(a) ==
  [a EXCEPT !.isLoading = TRUE, !.error = NoError, !.transactions = <<>>,
            !.loadingMessage = Label("Preparing", "", 0, 0)]

\* What App's state a becomes in a step in which the pipeline delivers label
\* (NoLabel: none) and the latest run becomes r2.  The callback handed to
\* processStatementFiles is App's setLoadingMessage.  When App is awaiting the
\* run (line 33) and the run has settled, the rest of handleProcessStatement
\* runs in the same task: lines 34-40.
AppContinuesFrom(a, r2, label) ==
  LET shown == IF label # NoLabel THEN [a EXCEPT !.loadingMessage = label] ELSE a
  IN IF a.isLoading /\ Settled(r2)
     THEN [shown EXCEPT !.transactions = IF r2.pc = "done" THEN r2.result ELSE @,
                        !.error = IF r2.pc = "failed" THEN r2.error ELSE @,
                        !.isLoading = FALSE,
                        !.loadingMessage = NoLabel]
     ELSE shown

AppContinues(r2, label) == AppContinuesFrom(app, r2, label)

\* One task has moved to t2: the callback it called, and Promise.all's reaction.
TaskStep(k, t2) ==
  LET ts == [tasks EXCEPT ![k] = t2]
      a == AfterRenders(run, ts, IF t2.orphan THEN 0 ELSE Position(ts, k))
  IN /\ tasks' = Alive(ts)
     /\ run' = a.run
     /\ loadingMessage' = IF a.label # NoLabel THEN a.label
                          ELSE IF TaskLabel(t2) # NoLabel THEN TaskLabel(t2)
                          ELSE loadingMessage
     /\ app' = AppContinues(a.run, IF a.label # NoLabel THEN a.label ELSE TaskLabel(t2))
     /\ UNCHANGED <<window, pdfjsLibPromise, promises>>

\* --------------------------------------------------------------- actions
Init ==
  /\ window = [pdfjsLib |-> NULL, pdfjsDist |-> NULL, workerSrc |-> FALSE]
  /\ pdfjsLibPromise = NULL
  /\ promises = <<>>
  /\ tasks = <<>>
  /\ run = NoRun
  /\ loadingMessage = NoLabel
  /\ app = InitialApp

\* files.map(file => fileToGenerativePart(file, setLoadingMessage)), line 155.
RECURSIVE StartRenders(_, _)
StartRenders(files, acc) ==
  IF files = <<>> THEN acc
  ELSE LET s == FileToGenerativePart(Head(files), acc.loader)
       IN StartRenders(Tail(files),
            [tasks |-> Append(acc.tasks, s.task),
             loader |-> s.loader,
             label |-> IF s.label # NoLabel THEN s.label ELSE acc.label])

\* processStatementFiles(files, setLoadingMessage) is invoked, the previous
\* invocation having settled; a is App's state at the invocation.
Invoke(files, a) ==
  /\ Settled(run)
  /\ LET kept == Orphaned(tasks)
         s == StartRenders(files,
                [tasks |-> <<>>, loader |-> Loader(window, pdfjsLibPromise, promises),
                 label |-> NoLabel])
         ts == kept \o s.tasks
         r == AfterRenders([NoRun EXCEPT !.files = files, !.pc = "rendering"], ts, 0)
     IN /\ Len(ts) <= MaxFiles
        /\ window' = s.loader.window
        /\ pdfjsLibPromise' = s.loader.pdfjsLibPromise
        /\ promises' = s.loader.promises
        /\ tasks' = ts
        /\ run' = r.run
        /\ loadingMessage' = IF r.label # NoLabel THEN r.label
                             ELSE IF s.label # NoLabel THEN s.label
                             ELSE loadingMessage
        /\ app' = AppContinuesFrom(a, r.run,
                     IF r.label # NoLabel THEN r.label ELSE s.label)

\* A caller other than App's handler invokes processStatementFiles.
ProcessStatementFiles(files) == Invoke(files, app)

\* The promise p has settled: every render awaiting it resumes.
Resume(ts, p, settled) ==
  [k \in DOMAIN ts |->
     IF ts[k].pc = "awaitLib" /\ ts[k].libPromise = p
     THEN AfterGetPdfJs(ts[k], settled) ELSE ts[k]]

\* The promise objects still referenced: a settled promise that neither
\* pdfjsLibPromise nor a waiting render refers to is dropped (from the end,
\* so that the identities of the others stand).
RECURSIVE Referenced(_, _, _)
Referenced(proms, plp, ts) ==
  LET p == Len(proms)
  IN IF /\ p > 0
        /\ proms[p].state # "pending"
        /\ plp # p
        /\ \A k \in DOMAIN ts : ~(ts[k].pc = "awaitLib" /\ ts[k].libPromise = p)
     THEN Referenced(SubSeq(proms, 1, p - 1), plp, ts)
     ELSE proms

LibrarySettles(p, settled) ==
  LET ts == Resume(tasks, p, settled)
      a == AfterRenders(run, ts, 0)
  IN /\ promises' = Referenced([promises EXCEPT ![p] = settled], pdfjsLibPromise', ts)
     /\ tasks' = Alive(ts)
     /\ run' = a.run
     /\ app' = AppContinues(a.run, NoLabel)
     /\ UNCHANGED loadingMessage

\* script.onload, lines 39-51.
ScriptOnload(p, libPresent) ==
  /\ p \in DOMAIN promises
  /\ promises[p].state = "pending"
  /\ pdfjsLibPromise' = pdfjsLibPromise
  /\ IF libPresent
     THEN /\ window' = [pdfjsLib |-> p, pdfjsDist |-> p, workerSrc |-> TRUE]
          /\ LibrarySettles(p, [state |-> "resolved", lib |-> p, reason |-> ""])
     ELSE /\ window' = window
          /\ LibrarySettles(p, [state |-> "rejected", lib |-> NULL,
                                reason |-> "LibraryNotFound"])

\* script.onerror, lines 52-56.
ScriptOnerror(p) ==
  /\ p \in DOMAIN promises
  /\ promises[p].state = "pending"
  /\ pdfjsLibPromise' = NULL
  /\ LibrarySettles(p, [state |-> "rejected", lib |-> NULL, reason |-> "LoadFailed"])
  /\ UNCHANGED window

\* file.arrayBuffer() settles (line 74).
ArrayBufferSettles(k, ok) ==
  /\ k \in DOMAIN tasks
  /\ tasks[k].pc = "arrayBuffer"
  /\ TaskStep(k, IF ok THEN ArrayBufferResolved(tasks[k])
                 ELSE Reject(tasks[k], Err("NotReadable", tasks[k].file.name, 0)))

\* pdfjsLib.getDocument(...).promise settles (lines 80-84).
GetDocumentSettles(k, ok) ==
  /\ k \in DOMAIN tasks
  /\ tasks[k].pc = "getDocument"
  /\ TaskStep(k, IF ok THEN DocumentOpened(tasks[k]) ELSE DocumentOpenFailed(tasks[k]))

\* pdf.getPage(i) settles (lines 91-100, 110-113).
GetPageSettles(k, ok, hasContext) ==
  /\ k \in DOMAIN tasks
  /\ tasks[k].pc = "getPage"
  /\ TaskStep(k, IF ok THEN PageFetched(tasks[k], hasContext)
                 ELSE PageRenderFailed(tasks[k]))

\* page.render(...).promise settles (lines 102-113).
RenderSettles(k, ok) ==
  /\ k \in DOMAIN tasks
  /\ tasks[k].pc = "render"
  /\ TaskStep(k, IF ok THEN PageRendered(tasks[k]) ELSE PageRenderFailed(tasks[k]))

\* reader.onloadend (lines 117-121): with reader.result null the handler
\* throws inside the event callback and the promise is never settled.
ReaderLoadEnd(k, hasResult) ==
  /\ k \in DOMAIN tasks
  /\ tasks[k].pc = "readAsDataURL"
  /\ TaskStep(k, IF hasResult THEN ReaderLoaded(tasks[k])
                 ELSE [tasks[k] EXCEPT !.pc = "hung"])

\* A variant without the test of line 217: the text is decoded even when it
\* is empty.
GenerateContentSettledDecodingEmpty(r, outcome) ==
  IF outcome.kind = "response"
  THEN LET d == CleanAndParseJson(outcome.text)
       IN IF d.ok
          THEN [r EXCEPT !.pc = "done", !.textResponse = outcome.text,
                         !.decoded = TRUE, !.result = d.value]
          ELSE [r EXCEPT !.pc = "failed", !.textResponse = outcome.text,
                         !.decoded = TRUE, !.error = d.error]
  ELSE IF outcome.kind = "error"
  THEN [r EXCEPT !.pc = "failed", !.error = Err(outcome.raised, "", 0)]
  ELSE [r EXCEPT !.pc = "failed", !.error = Err("FailedToProcess", "", 0)]

\* A variant that sends the request a second time when the first is rejected
\* with an Error.
GenerateContentSettledRetry(r, outcome) ==
  IF outcome.kind = "response"
  THEN IF outcome.text = <<>>
       THEN [r EXCEPT !.pc = "failed", !.error = Err("EmptyResponse", "", 0)]
       ELSE LET d == CleanAndParseJson(outcome.text)
            IN IF d.ok
               THEN [r EXCEPT !.pc = "done", !.textResponse = outcome.text,
                              !.decoded = TRUE, !.result = d.value]
               ELSE [r EXCEPT !.pc = "failed", !.textResponse = outcome.text,
                              !.decoded = TRUE, !.error = d.error]
  ELSE IF outcome.kind = "error" /\ r.calls < 2
  THEN [r EXCEPT !.calls = @ + 1]
  ELSE IF outcome.kind = "error"
  THEN [r EXCEPT !.pc = "failed", !.error = Err(outcome.raised, "", 0)]
  ELSE [r EXCEPT !.pc = "failed", !.error = Err("FailedToProcess", "", 0)]

\* Lines 204-228: the request settles.  A response carries its text (an
\* absent text and the empty text are both the empty sequence); a rejection
\* carries an Error instance or some other thrown value.
GenerateContentSettled(r, outcome) ==
  IF outcome.kind = "response"
  THEN IF outcome.text = <<>>
       THEN [r EXCEPT !.pc = "failed", !.error = Err("EmptyResponse", "", 0)]
       ELSE LET d == CleanAndParseJson(outcome.text)
            IN IF d.ok
               THEN [r EXCEPT !.pc = "done", !.textResponse = outcome.text,
                              !.decoded = TRUE, !.result = d.value]
               ELSE [r EXCEPT !.pc = "failed", !.textResponse = outcome.text,
                              !.decoded = TRUE, !.error = d.error]
  ELSE IF outcome.kind = "error"
  THEN [r EXCEPT !.pc = "failed", !.error = Err(outcome.raised, "", 0)]
  ELSE [r EXCEPT !.pc = "failed", !.error = Err("FailedToProcess", "", 0)]

\* raised names the value a rejected request raises: kind "error" is an
\* Error instance with that message, kind "thrown" any other value.
Response(text) == [kind |-> "response", text |-> text, raised |-> ""]

\* The texts the service answers with in the pipeline: an empty array, an
\* object, an array of one record, and no text.
ResponseTexts ==
  { <<>>,
    <<"[", "]">>,
    <<"{", "}">>,
    <<"[", "{", QUOTE, "a", QUOTE, ":", "-", "1", "}", "]">> }

Outcomes ==
  { Response(t) : t \in ResponseTexts }
    \cup { [kind |-> "error", text |-> <<>>, raised |-> "ServiceFailure"],
           [kind |-> "error", text |-> <<>>, raised |-> "NetworkFailure"],
           [kind |-> "thrown", text |-> <<>>, raised |-> "quota"],
           [kind |-> "thrown", text |-> <<>>, raised |-> "aborted"] }

GenerateContentSettles(outcome) ==
  /\ run.pc = "calling"
  /\ run' = GenerateContentSettled(run, outcome)
  /\ loadingMessage' = IF outcome.kind = "response"
                       THEN Label("Finalizing", "", 0, 0) ELSE loadingMessage
  /\ app' = AppContinues(GenerateContentSettled(run, outcome),
                         IF outcome.kind = "response"
                         THEN Label("Finalizing", "", 0, 0) ELSE NoLabel)
  /\ UNCHANGED <<window, pdfjsLibPromise, promises, tasks>>

Next ==
  \/ \E files \in FileLists : ProcessStatementFiles(files)
  \/ \E p \in DOMAIN promises, libPresent \in BOOLEAN : ScriptOnload(p, libPresent)
  \/ \E p \in DOMAIN promises : ScriptOnerror(p)
  \/ \E k \in DOMAIN tasks, ok \in BOOLEAN : ArrayBufferSettles(k, ok)
  \/ \E k \in DOMAIN tasks, ok \in BOOLEAN : GetDocumentSettles(k, ok)
  \/ \E k \in DOMAIN tasks, ok \in BOOLEAN, hasContext \in BOOLEAN :
       GetPageSettles(k, ok, hasContext)
  \/ \E k \in DOMAIN tasks, ok \in BOOLEAN : RenderSettles(k, ok)
  \/ \E k \in DOMAIN tasks, hasResult \in BOOLEAN : ReaderLoadEnd(k, hasResult)
  \/ \E outcome \in Outcomes : GenerateContentSettles(outcome)

Spec == Init /\ [][Next]_vars

\* ------------------------------------------------- the decoder on its own
\* SpecDecode starts where a run of one image file has sent its request
\* (Init, ProcessStatementFiles(<<c.png>>), ReaderLoadEnd(1, TRUE)) and lets
\* the service answer with any text of DecodeTexts.
MaxTextLen == 4

ImageFile == CHOOSE f \in Files : f.type # PDF_TYPE

InitDecode ==
  /\ window = [pdfjsLib |-> NULL, pdfjsDist |-> NULL, workerSrc |-> FALSE]
  /\ pdfjsLibPromise = NULL
  /\ promises = <<>>
  /\ tasks = <<ReaderLoaded([NewTask(ImageFile) EXCEPT !.pc = "readAsDataURL"])>>
  /\ run = [NoRun EXCEPT !.files = <<ImageFile>>, !.pc = "calling", !.last = 1,
                         !.imageParts = <<Part(ImageFile.type, ImageFile.name, 1)>>,
                         !.calls = 1]
  /\ loadingMessage = Label("Analyzing", "", 0, 0)
  /\ app = [InitialApp EXCEPT !.loadingMessage = Label("Analyzing", "", 0, 0)]

\* The bodies: every text of at most MaxTextLen of these characters, and the
\* texts of HandCases.
BodyChars == {"[", "]", "{", "}", ",", "1", " "}

Q == QUOTE
NotJsonText == <<"n", "o", "t", " ", "j", "s", "o", "n">>

\* Texts with the value JSON defines for them (ok = FALSE: not a JSON array).
Case(text, ok, items) == [text |-> text, ok |-> ok, items |-> items]
HandCases ==
  { Case(NotJsonText, FALSE, <<>>),
    Case(<<"n", "u", "l", "l">>, FALSE, <<>>),
    Case(<<Q, "a", Q>>, FALSE, <<>>),
    Case(<<"{", Q, "a", Q, ":", "[", "]", "}">>, FALSE, <<>>),
    Case(<<"[", "1", "]", " ", "a">>, FALSE, <<>>),
    Case(<<"[", Q, "a", "]">>, FALSE, <<>>),
    Case(<<"[", "0", "1", "]">>, FALSE, <<>>),
    Case(<<"[", NBSP, "]">>, FALSE, <<>>),
    Case(<<"[", "1", "0", ",", "\n", " ", "-", "2", "]">>, TRUE,
         <<JNumber(FALSE, 10), JNumber(TRUE, 2)>>),
    Case(<<"[", "n", "u", "l", "l", ",", Q, "a", " ", Q, "]">>, TRUE,
         <<JNull, JString(<<"a", " ">>)>>),
    Case(<<"[", "{", Q, "a", Q, ":", "-", "1", "}", "]">>, TRUE,
         <<JObject({[key |-> <<"a">>, value |-> JNumber(TRUE, 1)]})>>),
    Case(<<"[", "{", Q, "a", Q, ":", "1", ",", Q, "a", Q, ":", "2", "}", "]">>, TRUE,
         <<JObject({[key |-> <<"a">>, value |-> JNumber(FALSE, 2)]})>>),
    Case(<<"[", "{", Q, "a", Q, ":", "1", "}", ",", "{", "}", "]">>, TRUE,
         <<JObject({[key |-> <<"a">>, value |-> JNumber(FALSE, 1)]}), JObject({})>>) }

Bodies == SeqsUpTo(BodyChars, MaxTextLen) \cup { c.text : c \in HandCases }

\* What surrounds a body.  A transparent wrap leaves the body to be decoded:
\* whitespace that trim strips, or a json fence (with or without text around
\* it).  An opaque wrap makes the text undecodable whatever the body is.
Wrap(pre, post, opaque) == [pre |-> pre, post |-> post, opaque |-> opaque]
B3 == <<BACKTICK, BACKTICK, BACKTICK>>
W_None == Wrap(<<>>, <<>>, FALSE)
W_Pad == Wrap(<<" ", "\n">>, <<NBSP, "\t">>, FALSE)
W_Fence == Wrap(FENCE_OPEN, FENCE_CLOSE, FALSE)
W_FencePad == Wrap(<<"\n">> \o FENCE_OPEN, FENCE_CLOSE \o <<" ">>, FALSE)
W_FenceProse == Wrap(<<"a", " ">> \o FENCE_OPEN, FENCE_CLOSE \o <<"\n", "t">>, FALSE)
W_FenceTwice ==
  Wrap(FENCE_OPEN, FENCE_CLOSE \o <<"\n">> \o FENCE_OPEN \o <<"{", "}">> \o FENCE_CLOSE,
       FALSE)
W_Prose == Wrap(<<"a", " ">>, <<>>, TRUE)
W_FenceNoNewline == Wrap(B3 \o <<"j", "s", "o", "n">>, B3, TRUE)
W_FenceNoLabel == Wrap(B3 \o <<"\n">>, <<"\n">> \o B3, TRUE)
W_FenceNbsp == Wrap(FENCE_OPEN \o <<NBSP>>, FENCE_CLOSE, TRUE)
Wraps == { W_None, W_Pad, W_Fence, W_FencePad, W_FenceProse, W_FenceTwice,
           W_Prose, W_FenceNoNewline, W_FenceNoLabel, W_FenceNbsp }

Wrapped(body, w) == w.pre \o body \o w.post

DecodeTexts == { Wrapped(b, w) : b \in Bodies, w \in Wraps }

\* The JSON documents over BodyChars of at most MaxTextLen characters, each
\* with its value, generated from the grammar of JSON (RFC 8259): a value is
\* a number, an object or an array of values separated by commas, and
\* whitespace may surround every value.
Doc(text, val) == [text |-> text, val |-> val]
Short(S, n) == { d \in S : Len(d.text) <= n }

Spaces(n) == { [k \in 1..m |-> " "] : m \in 0..n }

RECURSIVE Ones(_)
Ones(m) == IF m = 0 THEN 0 ELSE 10 * Ones(m - 1) + 1

NumberDocs(n) == { Doc([k \in 1..m |-> "1"], JNumber(FALSE, Ones(m))) : m \in 1..n }

EmptyObjectDocs(n) ==
  Short({ Doc(<<"{">> \o sp \o <<"}">>, JObject({})) : sp \in Spaces(n) }, n)

Padded(S, n) ==
  Short({ Doc(l \o d.text \o r, d.val) : l \in Spaces(n), r \in Spaces(n), d \in S }, n)

\* Comma-separated lists of at most k elements of E; val is the list of values.
RECURSIVE ElementLists(_, _, _)
ElementLists(E, k, n) ==
  IF k = 1 THEN { Doc(e.text, <<e.val>>) : e \in E }
  ELSE LET shorter == ElementLists(E, k - 1, n)
       IN shorter \cup
          Short({ Doc(l.text \o <<",">> \o e.text, Append(l.val, e.val)) :
                    l \in shorter, e \in E }, n)

RECURSIVE ValueDocs(_, _)
ValueDocs(depth, n) ==
  IF n <= 0 THEN {}
  ELSE IF depth = 0 THEN NumberDocs(n) \cup EmptyObjectDocs(n)
  ELSE LET inner == Padded(ValueDocs(depth - 1, n - 2), n - 2)
       IN ValueDocs(depth - 1, n)
            \cup Short({ Doc(<<"[">> \o sp \o <<"]">>, JArray(<<>>)) : sp \in Spaces(n) }, n)
            \cup (IF inner = {} THEN {}
                  ELSE { Doc(<<"[">> \o l.text \o <<"]">>, JArray(l.val)) :
                           l \in ElementLists(inner, n, n - 2) })

JsonDocs == Padded(ValueDocs(MaxTextLen, MaxTextLen), MaxTextLen)

\* What JSON says of a body: the hand-written cases, and else the grammar.
JsonArrayOf(body) ==
  IF \E c \in HandCases : c.text = body
  THEN CHOOSE c \in HandCases : c.text = body
  ELSE IF \E d \in JsonDocs : d.text = body /\ d.val.type = "array"
  THEN LET d == CHOOSE d \in JsonDocs : d.text = body /\ d.val.type = "array"
       IN Case(body, TRUE, d.val.items)
  ELSE Case(body, FALSE, <<>>)

\* Whether text is body wrapped in w, for some body; and that body.
BodyIn(text, w) ==
  SubText(text, Len(w.pre) + 1, Len(text) - Len(w.post))
IsWrapped(text, w) ==
  /\ Len(text) >= Len(w.pre) + Len(w.post)
  /\ Wrapped(BodyIn(text, w), w) = text
  /\ BodyIn(text, w) \in Bodies

NextDecode ==
  /\ run.pc = "calling"
  /\ \E text \in DecodeTexts : GenerateContentSettles(Response(text))

SpecDecode == InitDecode /\ [][NextDecode]_vars

\* ------------------------------------------------------- the application
\* SpecApp is the application: App and FileUpload are the only caller of
\* processStatementFiles, and the user's events are those the rendered page
\* offers.

\* What a selection event can carry: any list, with repetitions, of the
\* files the user picks from (a document with pages and an image).
PickedFiles == { f \in Files : f.numPages > 0 }
Selections == SeqsUpTo(PickedFiles, MaxFiles) \ { <<>> }

\* Once the latest invocation has settled and App has taken its outcome
\* (App.tsx lines 33-36), nothing refers to its promise or to the renders of
\* it that have settled: at the user's next event they are gone, and the
\* renders still in flight are orphans.
Released ==
  IF Settled(run) THEN [tasks |-> Orphaned(tasks), run |-> NoRun]
  ELSE [tasks |-> tasks, run |-> run]

\* App.handleFilesChange(selectedFiles), App.tsx lines 15-19.
HandleFilesChange(selectedFiles) ==
  /\ app' = [app EXCEPT !.files = selectedFiles, !.transactions = <<>>,
                        !.error = NoError]
  /\ tasks' = Released.tasks
  /\ run' = Released.run
  /\ UNCHANGED <<window, pdfjsLibPromise, promises, loadingMessage>>

\* FileUpload is rendered (App.tsx line 63).
FileUploadShown(a) == ~a.isLoading /\ a.transactions = <<>>

\* The files FileUpload.handleFileSelect passes on (FileUpload.tsx lines 18-24).
UpdatedFiles(files, newFiles) ==
  files \o SelectSeq(newFiles,
                     LAMBDA newFile : \A k \in DOMAIN files : files[k].name # newFile.name)

\* The change event of the file input, FileUpload.tsx lines 14-31.  Lists
\* longer than MaxFiles are left out.
HandleFileSelect(newFiles) ==
  /\ FileUploadShown(app)
  /\ newFiles # <<>>
  /\ Len(UpdatedFiles(app.files, newFiles)) <= MaxFiles
  /\ HandleFilesChange(UpdatedFiles(app.files, newFiles))

\* A click on a file's remove button, FileUpload.tsx lines 33-37 and 73-74.
HandleRemoveFile(fileNameToRemove) ==
  /\ FileUploadShown(app)
  /\ \E k \in DOMAIN app.files : app.files[k].name = fileNameToRemove
  /\ HandleFilesChange(SelectSeq(app.files, LAMBDA file : file.name # fileNameToRemove))

\* A click on Clear all, FileUpload.tsx lines 39-45 and 90-91.
HandleClearFiles ==
  /\ FileUploadShown(app)
  /\ app.files # <<>>
  /\ HandleFilesChange(<<>>)

\* The Analyze button is rendered (App.tsx lines 63-74).
AnalyzeShown(a) == FileUploadShown(a) /\ a.files # <<>>

\* A click on Analyze: App.handleProcessStatement, App.tsx lines 21-41, up to
\* the first task boundary.
HandleProcessStatement ==
  /\ AnalyzeShown(app)
  /\ IF app.files = <<>>
     THEN /\ app' = [app EXCEPT !.error = Err("SelectFiles", "", 0)]
          /\ UNCHANGED <<window, pdfjsLibPromise, promises, tasks, run, loadingMessage>>
     ELSE Invoke(app.files, AppStarts(app))

\* A variant that renders both reset buttons whatever the state is.
ResetAlwaysShown(a) == TRUE

\* Try Again (App.tsx line 85) or Analyze Another Statement (line 98) is
\* rendered.
ResetShown(a) == a.error # NoError \/ (~a.isLoading /\ a.transactions # <<>>)

\* A click on either of them: App.resetState, App.tsx lines 43-48.
ResetState ==
  /\ ResetShown(app)
  /\ app' = [app EXCEPT !.files = <<>>, !.transactions = <<>>, !.error = NoError,
                        !.isLoading = FALSE]
  /\ tasks' = Released.tasks
  /\ run' = Released.run
  /\ UNCHANGED <<window, pdfjsLibPromise, promises, loadingMessage>>

NextApp ==
  \/ \E newFiles \in Selections : HandleFileSelect(newFiles)
  \/ \E file \in Files : HandleRemoveFile(file.name)
  \/ HandleClearFiles
  \/ HandleProcessStatement
  \/ ResetState
  \/ \E p \in DOMAIN promises, libPresent \in BOOLEAN : ScriptOnload(p, libPresent)
  \/ \E p \in DOMAIN promises : ScriptOnerror(p)
  \/ \E k \in DOMAIN tasks, ok \in BOOLEAN : ArrayBufferSettles(k, ok)
  \/ \E k \in DOMAIN tasks, ok \in BOOLEAN : GetDocumentSettles(k, ok)
  \/ \E k \in DOMAIN tasks, ok \in BOOLEAN, hasContext \in BOOLEAN :
       GetPageSettles(k, ok, hasContext)
  \/ \E k \in DOMAIN tasks, ok \in BOOLEAN : RenderSettles(k, ok)
  \/ \E k \in DOMAIN tasks, hasResult \in BOOLEAN : ReaderLoadEnd(k, hasResult)
  \/ \E outcome \in Outcomes : GenerateContentSettles(outcome)

SpecApp == Init /\ [][NextApp]_vars

\* The external operations: each one that is pending eventually reports, with
\* success or with failure (the browser fires load or error for the script,
\* loadend for the reader; the promises of pdf.js and of the service settle).
Completes ==
  \/ \E p \in DOMAIN promises, libPresent \in BOOLEAN : ScriptOnload(p, libPresent)
  \/ \E p \in DOMAIN promises : ScriptOnerror(p)
  \/ \E k \in DOMAIN tasks, ok \in BOOLEAN : ArrayBufferSettles(k, ok)
  \/ \E k \in DOMAIN tasks, ok \in BOOLEAN : GetDocumentSettles(k, ok)
  \/ \E k \in DOMAIN tasks, ok \in BOOLEAN, hasContext \in BOOLEAN :
       GetPageSettles(k, ok, hasContext)
  \/ \E k \in DOMAIN tasks, ok \in BOOLEAN : RenderSettles(k, ok)
  \/ \E k \in DOMAIN tasks, hasResult \in BOOLEAN : ReaderLoadEnd(k, hasResult)
  \/ \E outcome \in Outcomes : GenerateContentSettles(outcome)

\* The application under that assumption; nothing is assumed of the user.
SpecAppFair == Init /\ [][NextApp]_vars /\ WF_vars(Completes)

\* ------------------------------------------------------------ properties
\* What a file contributes when its render succeeds: one part per page, in
\* page order, for a PDF; the file itself for an image.
PagesOf(file) ==
  IF file.type = PDF_TYPE
  THEN [i \in 1..file.numPages |-> Part(JPEG_TYPE, file.name, i)]
  ELSE <<Part(file.type, file.name, 1)>>

RECURSIVE ExpectedBatch(_)
ExpectedBatch(files) ==
  IF files = <<>> THEN <<>> ELSE PagesOf(Head(files)) \o ExpectedBatch(Tail(files))

RECURSIVE TotalPages(_)
TotalPages(files) ==
  IF files = <<>> THEN 0 ELSE Len(PagesOf(Head(files))) + TotalPages(Tail(files))

\* The renders of the latest invocation, by input position.
Renders == Mine(tasks)

\* C1: the batch sent to the service is the concatenation, in the order of
\* the input files, of each file's pages in page order, whichever render
\* finished first.
C1_BatchInInputOrder ==
  run.calls > 0 => run.imageParts = ExpectedBatch(run.files)

\* A request is out for a PDF followed by an image, and the PDF (first in the
\* input) was the last render to finish.
C1_Witness ==
  /\ run.pc = "calling"
  /\ Len(run.files) = 2
  /\ run.files[1].type = PDF_TYPE /\ run.files[1].numPages > 0
  /\ run.files[2].type # PDF_TYPE
  /\ run.last = 1
  /\ Len(run.imageParts) = run.files[1].numPages + 1

\* C2: when every render has succeeded and the batch has no page, the run
\* has failed with the empty-batch error and no request was sent; a request
\* that was sent carried at least one page.
C2_EmptyBatchNeverSent ==
  /\ run.calls > 0 => Len(run.imageParts) > 0
  /\ ( /\ run.pc # "idle"
       /\ \A k \in DOMAIN Renders :
            Renders[k].pc = "fulfilled" /\ Renders[k].parts = <<>> )
     => /\ run.pc = "failed"
        /\ run.error = Err("NoProcessableContent", "", 0)
        /\ run.calls = 0

\* A PDF without pages was rendered and the run failed on the empty batch.
C2_Witness ==
  /\ run.pc = "failed"
  /\ run.error.kind = "NoProcessableContent"
  /\ Len(run.files) >= 1
  /\ \A k \in DOMAIN Renders : Renders[k].pc = "fulfilled" /\ Renders[k].numPages = 0
  /\ run.calls = 0

\* The renders whose document could not be opened.
OpenFailed == { k \in DOMAIN Renders :
                  Renders[k].pc = "rejected" /\ Renders[k].error.kind = "CouldNotRead" }

\* C3 as stated: when opening a document fails, the run fails with the
\* document-open error naming that document, no page of it was fetched, and
\* no request was sent.
C3_OpenFailureIsRunError ==
  \A k \in OpenFailed :
    /\ run.pc = "failed"
    /\ run.error = Err("CouldNotRead", Renders[k].file.name, 0)
    /\ Renders[k].i = 0 /\ Renders[k].parts = <<>>
    /\ run.calls = 0

\* C3 amended: when opening a document fails, that render fails with the
\* document-open error naming the document, no page of it was fetched, the
\* run has failed with the error of the first render that failed (the
\* document-open error when this was the first failure), and no request was
\* sent.
C3_OpenFailureFailsRun ==
  \A k \in OpenFailed :
    /\ run.pc = "failed"
    /\ run.last \in DOMAIN Renders
    /\ Renders[run.last].pc = "rejected"
    /\ run.error = Renders[run.last].error
    /\ run.last = k => run.error = Err("CouldNotRead", Renders[k].file.name, 0)
    /\ Renders[k].error = Err("CouldNotRead", Renders[k].file.name, 0)
    /\ Renders[k].i = 0 /\ Renders[k].parts = <<>>
    /\ run.calls = 0

\* Of two files the second could not be opened, and this failed the run.
C3_Witness ==
  /\ Len(run.files) = 2
  /\ 2 \in OpenFailed
  /\ run.last = 2
  /\ run.pc = "failed"
  /\ run.error = Err("CouldNotRead", run.files[2].name, 0)

\* What a render saw of the library once its wait was over.
LibOutcome(t) ==
  IF t.lib # NULL THEN [lib |-> t.lib, error |-> NoError]
  ELSE [lib |-> NULL, error |-> t.error]

\* C4: at most one load of the library is in flight, it is the one
\* pdfjsLibPromise holds, and the renders that were handed the same promise
\* resume together with the same library instance or the same error.
C4_OneSharedInitialization ==
  /\ Cardinality({ p \in DOMAIN promises : promises[p].state = "pending" }) <= 1
  /\ \A p \in DOMAIN promises : promises[p].state = "pending" => pdfjsLibPromise = p
  /\ \A j, k \in DOMAIN tasks :
       (tasks[j].libPromise # NULL /\ tasks[j].libPromise = tasks[k].libPromise)
       => /\ (tasks[j].pc = "awaitLib") <=> (tasks[k].pc = "awaitLib")
          /\ tasks[j].pc = "awaitLib" => promises[tasks[j].libPromise].state = "pending"
          /\ tasks[j].pc # "awaitLib" => LibOutcome(tasks[j]) = LibOutcome(tasks[k])

\* Two renders waited on the same promise and both hold the instance it
\* resolved with.
C4_Witness ==
  \E j, k \in DOMAIN tasks :
    /\ j # k
    /\ tasks[j].libPromise # NULL /\ tasks[j].libPromise = tasks[k].libPromise
    /\ tasks[j].lib # NULL /\ tasks[j].lib = tasks[k].lib
    /\ window.pdfjsLib = tasks[j].lib

HasPdf(files) == \E k \in DOMAIN files : files[k].type = PDF_TYPE

\* C5 as stated: a call that needs the library while it is absent and no
\* load is in flight (none was started, or the last one failed) starts a
\* fresh load: the promise it is handed is pending.
C5_FailedInitIsRetried ==
  [][ \A files \in FileLists :
        ( /\ ProcessStatementFiles(files)
          /\ HasPdf(files)
          /\ window.pdfjsLib = NULL /\ window.pdfjsDist = NULL
          /\ \A p \in DOMAIN promises : promises[p].state # "pending" )
        => /\ pdfjsLibPromise' # NULL
           /\ promises'[pdfjsLibPromise'].state = "pending" ]_vars

\* The renders that failed on a page.
PageFailed == { k \in DOMAIN Renders :
                  Renders[k].pc = "rejected" /\ Renders[k].error.kind = "PageRender" }

\* C6: when fetching or rasterizing page k of a document fails, the render
\* fails with the page-render error naming page k and the document, it stays
\* at page k with the k-1 pages encoded before, and no request was sent in
\* that run, so none of those pages is in a batch.
C6_PageFailureAbortsDocument ==
  \A k \in PageFailed :
    LET t == Renders[k]
    IN /\ t.error = Err("PageRender", t.file.name, t.i)
       /\ t.i \in 1..t.numPages
       /\ Len(t.parts) = t.i - 1
       /\ run.pc = "failed"
       /\ run.calls = 0 /\ run.imageParts = <<>>

\* Of two files, one failed on its second page with its first page encoded.
C6_Witness ==
  /\ Len(run.files) = 2
  /\ \E k \in PageFailed :
       /\ Renders[k].error.page = 2
       /\ Renders[k].parts = <<Part(JPEG_TYPE, Renders[k].file.name, 1)>>

\* C7: a render that succeeded for a PDF of N pages holds N parts, the i-th
\* being page i tagged image/jpeg; for an image it holds one part tagged with
\* the file's type; and the batch that was sent has as many parts as the
\* files have pages.
C7_OnePartPerPage ==
  /\ \A k \in DOMAIN tasks :
       LET t == tasks[k]
       IN t.pc = "fulfilled" =>
            IF t.file.type = PDF_TYPE
            THEN /\ Len(t.parts) = t.numPages
                 /\ t.numPages = t.file.numPages
                 /\ \A i \in 1..Len(t.parts) :
                      /\ t.parts[i].mimeType = JPEG_TYPE
                      /\ t.parts[i].page = i
                      /\ t.parts[i].file = t.file.name
            ELSE /\ Len(t.parts) = 1
                 /\ t.parts[1].mimeType = t.file.type
                 /\ t.parts[1].file = t.file.name
  /\ run.calls > 0 => Len(run.imageParts) = TotalPages(run.files)

\* An image and a PDF of MaxPages pages were rendered and sent.
C7_Witness ==
  /\ run.calls = 1
  /\ Len(run.files) = 2
  /\ run.files[1].type # PDF_TYPE
  /\ run.files[2].type = PDF_TYPE
  /\ Len(run.imageParts) = 1 + MaxPages
  /\ \A k \in DOMAIN Renders : Renders[k].pc = "fulfilled"

\* C8 (under SpecDecode): a text that was decoded is a body in a wrap.  The
\* decoding has succeeded, with all the items of the array, exactly when the
\* wrap leaves the body to be decoded (whitespace around it, or a json fence:
\* opening fence, newline, body, newline, closing fence) and the body is a
\* JSON array; otherwise it has failed with the invalid-format error and has
\* returned nothing.  The text not json and an object fail; an empty array
\* yields the empty list.
C8_DecodeExactlyArrays ==
  (Settled(run) /\ run.decoded) =>
    /\ \E w \in Wraps : IsWrapped(run.textResponse, w)
    /\ \A w \in Wraps :
         IsWrapped(run.textResponse, w) =>
           LET c == JsonArrayOf(BodyIn(run.textResponse, w))
           IN IF ~w.opaque /\ c.ok
              THEN run.pc = "done" /\ run.result = c.items /\ run.error = NoError
              ELSE /\ run.pc = "failed"
                   /\ run.error = InvalidFormatError
                   /\ run.result = <<>>
    /\ run.textResponse \in {NotJsonText, <<"{", "}">>} => run.pc = "failed"
    /\ run.textResponse = <<"[", "]">> => run.pc = "done" /\ run.result = <<>>

\* An array inside a json fence with text around the fence was decoded.
C8_Witness ==
  /\ run.pc = "done"
  /\ run.textResponse = Wrapped(<<"[", "1", "]">>, W_FenceProse)
  /\ run.result = <<JNumber(FALSE, 1)>>

\* C9 (under SpecDecode): when the text decoded is a JSON array inside a
\* json fence, the list returned is the one that decoding the bare array
\* returns.
C9_FenceIsTransparent ==
  ( /\ Settled(run) /\ run.decoded
    /\ IsWrapped(run.textResponse, W_Fence)
    /\ JsonArrayOf(BodyIn(run.textResponse, W_Fence)).ok )
  => LET bare == CleanAndParseJson(BodyIn(run.textResponse, W_Fence))
     IN /\ bare.ok
        /\ run.pc = "done"
        /\ run.result = bare.value

\* An array of one record inside a json fence was decoded.
C9_Witness ==
  LET record == <<"[", "{", Q, "a", Q, ":", "-", "1", "}", "]">>
  IN /\ run.pc = "done"
     /\ run.textResponse = Wrapped(record, W_Fence)
     /\ run.result = <<JObject({[key |-> <<"a">>, value |-> JNumber(TRUE, 1)]})>>

\* C10: a request is sent at most once in a run, and only when every render
\* has succeeded and the batch has a page; a text is decoded only when a
\* request was sent and it answered with a text that is not empty; and a run
\* succeeds only with a decoded text.
C10_StagesInSequence ==
  /\ run.calls <= 1
  /\ run.calls > 0 =>
       /\ Len(Renders) = Len(run.files)
       /\ \A k \in DOMAIN Renders : Renders[k].pc = "fulfilled"
       /\ run.imageParts # <<>>
  /\ run.pc = "calling" => run.calls = 1 /\ ~run.decoded
  /\ run.decoded => run.calls = 1 /\ run.textResponse # <<>> /\ Settled(run)
  /\ run.pc = "done" => run.decoded

\* A run of two files has gone through the three stages to a list of one
\* record.
C10_Witness ==
  /\ run.pc = "done"
  /\ Len(run.files) = 2
  /\ run.calls = 1
  /\ Len(run.result) = 1

\* The renders of the latest invocation that have failed.
Failed == { k \in DOMAIN Renders : Renders[k].pc = "rejected" }

\* C11: as soon as a render of the run has failed, the run has failed, with
\* the error of the render that failed first, whatever the other renders are
\* doing; no request is sent in that run, and the pages of the renders that
\* succeed, before or after, are in no batch.
C11_FirstFailureFailsRun ==
  /\ Failed # {} =>
       /\ run.pc = "failed"
       /\ run.last \in Failed
       /\ run.error = Renders[run.last].error
       /\ run.calls = 0
       /\ run.imageParts = <<>>
  /\ run.calls > 0 =>
       /\ Failed = {}
       /\ \A k \in DOMAIN tasks : tasks[k].orphan => tasks[k].pc \in InFlightPcs
       /\ run.imageParts = ExpectedBatch(run.files)

\* The second of two renders has failed the run while the first, with a page
\* encoded, is still in flight.
C11_Witness ==
  /\ Len(run.files) = 2
  /\ run.pc = "failed"
  /\ Failed = {2}
  /\ Renders[1].pc \in InFlightPcs
  /\ Renders[1].parts # <<>>

\* C12 as stated: an image render whose read has ended without the bytes has
\* failed with the unreadable-file error naming the file, and the run has
\* failed, with that error when no other render failed.
C12_UnreadableImageFails ==
  \A k \in DOMAIN Renders :
    LET t == Renders[k]
    IN (t.file.type # PDF_TYPE /\ t.pc \notin {"readAsDataURL", "fulfilled"}) =>
         /\ t.pc = "rejected"
         /\ t.error = Err("NotReadable", t.file.name, 0)
         /\ run.pc = "failed"
         /\ Failed = {k} => run.error = t.error

\* C13 as stated (under SpecAppFair): a run that has started eventually
\* settles, and App's loading flag is then false.
C13_RunsSettle == (~Settled(run)) ~> (Settled(run) /\ ~app.isLoading)

\* C14: in every step in which the request settles with a response that has
\* no text, the run fails with the empty-response error and nothing is
\* decoded.
C14_EmptyResponseFails ==
  [][ ( /\ run.pc = "calling"
        /\ GenerateContentSettles(Response(<<>>)) )
      => /\ run'.pc = "failed"
         /\ run'.error = Err("EmptyResponse", "", 0)
         /\ ~run'.decoded
         /\ run'.textResponse = <<>> /\ run'.result = <<>> ]_vars

\* A run of two files has failed on a response without text.
C14_Witness ==
  /\ run.pc = "failed"
  /\ run.error = Err("EmptyResponse", "", 0)
  /\ run.calls = 1
  /\ Len(run.files) = 2
  /\ ~run.decoded

\* C15 as stated: in every step in which the request is rejected, whatever
\* the value raised, the run fails with an error that carries that value,
\* and the request is not sent again.
C15_CausePreserved ==
  [][ \A outcome \in Outcomes :
        ( /\ run.pc = "calling"
          /\ outcome.kind # "response"
          /\ GenerateContentSettles(outcome) )
        => /\ run'.pc = "failed"
           /\ run'.error.kind = outcome.raised
           /\ run'.calls = run.calls ]_vars

\* C16: in every state of the application an error and a non-empty
\* transaction list never coexist; while the latest run is failed the list is
\* empty; and a non-empty list is the result of the latest run, which
\* succeeded.
C16_ErrorExcludesTransactions ==
  /\ ~(app.error # NoError /\ app.transactions # <<>>)
  /\ run.pc = "failed" => app.transactions = <<>>
  /\ app.transactions # <<>> =>
       /\ run.pc = "done"
       /\ app.transactions = run.result

\* A run succeeded and its records are shown, after an earlier run failed
\* while one of its renders was still in flight.
C16_Witness ==
  /\ app.transactions # <<>>
  /\ app.error = NoError
  /\ run.pc = "done"
  /\ \E k \in DOMAIN tasks : tasks[k].orphan

\* C17 (under SpecDecode): when the decoding has succeeded, the list returned
\* is the array the service produced, record for record: as many records, in
\* the same order, each one as the service wrote it, a record that lacks
\* fields (an object with one field, an object with none) included.
C17_ArrayReturnedUnchanged ==
  (run.pc = "done" /\ run.decoded) =>
    \A w \in Wraps :
      (IsWrapped(run.textResponse, w) /\ ~w.opaque) =>
        LET produced == JsonArrayOf(BodyIn(run.textResponse, w)).items
        IN /\ Len(run.result) = Len(produced)
           /\ \A k \in DOMAIN produced : run.result[k] = produced[k]

\* An array of two records, the second without any field, was decoded.
C17_Witness ==
  /\ run.pc = "done" /\ run.decoded
  /\ run.textResponse = <<"[", "{", Q, "a", Q, ":", "1", "}", ",", "{", "}", "]">>
  /\ Len(run.result) = 2
  /\ run.result[1] = JObject({[key |-> <<"a">>, value |-> JNumber(FALSE, 1)]})
  /\ run.result[2] = JObject({})

\* C18 as stated: a label is delivered before each stage and sub-step.  In
\* every step that starts a run whose renders are in flight, the renders
\* having been started in input order, the last label delivered names the
\* last input file, whatever its type; in every step in which the request is
\* sent the label of the analysis is delivered; and in every step in which a
\* response is decoded the label of the decoding is delivered.
C18_LabelBeforeEachStage ==
  [][ /\ \A files \in FileLists :
           ( /\ files # <<>>
             /\ ProcessStatementFiles(files)
             /\ run'.pc = "rendering" )
           => loadingMessage'.file = files[Len(files)].name
      /\ (run.pc # "calling" /\ run'.pc = "calling")
           => loadingMessage' = Label("Analyzing", "", 0, 0)
      /\ (~run.decoded /\ run'.decoded)
           => loadingMessage' = Label("Finalizing", "", 0, 0) ]_vars

\* C19: within one document the pages are rasterized one after the other.
\* Whenever page i of a document is being fetched or rasterized, pages 1 to
\* i - 1 of that document, and no others, have been rasterized and encoded,
\* in that order, whatever the other renders of the batch are doing.
C19_PagesStrictlySequential ==
  \A k \in DOMAIN tasks :
    tasks[k].pc \in {"getPage", "render"} =>
      /\ tasks[k].i \in 1..tasks[k].numPages
      /\ Len(tasks[k].parts) = tasks[k].i - 1
      /\ \A j \in DOMAIN tasks[k].parts :
           tasks[k].parts[j] = Part(JPEG_TYPE, tasks[k].file.name, j)

\* The second page of a document is being rasterized, the first one encoded,
\* while another file of the same batch is still being read.
C19_Witness ==
  \E k, m \in DOMAIN tasks :
    /\ k # m
    /\ ~tasks[k].orphan /\ ~tasks[m].orphan
    /\ tasks[k].pc = "render" /\ tasks[k].i = 2
    /\ tasks[k].parts = <<Part(JPEG_TYPE, tasks[k].file.name, 1)>>
    /\ tasks[m].pc \in InFlightPcs
    /\ run.pc = "rendering"

\* C20: in every state of the application the loading flag is set exactly
\* while the latest run is in flight, and wherever the page offers a way to
\* start a run or to reset (Analyze, Try Again, Analyze Another Statement)
\* the latest run has settled: a run is started only when none is in flight,
\* whatever the user does.
C20_OneRunInFlight ==
  /\ app.isLoading <=> ~Settled(run)
  /\ AnalyzeShown(app) => (Settled(run) /\ ~app.isLoading)
  /\ ResetShown(app) => Settled(run)

\* A second run is in flight, its request sent, while a render of an earlier
\* run, which has failed, is still going on.
C20_Witness ==
  /\ app.isLoading
  /\ run.pc = "calling"
  /\ ~AnalyzeShown(app) /\ ~ResetShown(app)
  /\ \E k \in DOMAIN tasks : tasks[k].orphan /\ tasks[k].pc \in InFlightPcs

\* C21 as stated: in every state of the application, whatever selection,
\* remove and clear-all events have happened, no two files of the selected
\* list have the same name.
C21_NamesAreUnique ==
  \A j, k \in DOMAIN app.files :
    j # k => app.files[j].name # app.files[k].name

\* C22 as stated: in every state of the application in which no run is in
\* flight (the loading flag is false), the progress message is empty.
C22_NoLabelOnceSettled ==
  ~app.isLoading => app.loadingMessage = NoLabel

====
